---- MODULE Spec2Model ----
(***************************************************************************)
(* Model of src/src/index.ts: the NMEA0183 to serial port forwarder.       *)
(*                                                                         *)
(* The plugin keeps three module-level variables (reportInterval,          *)
(* forwardedCounter, serial) and reacts to host calls: start(settings),    *)
(* stop(), sentences emitted on the 'nmea0183' and 'nmea0183out' bus       *)
(* channels, the interval timers created by start(), and the 'open' and    *)
(* 'error' events of the serial ports created by start().  Every callback  *)
(* runs to completion, so each is one action.                              *)
(*                                                                         *)
(* Strings that the code inspects (sentences) are sequences of one-char    *)
(* strings; null is 0 and handles (timers, serial ports) are 1, 2, ...     *)
(***************************************************************************)
EXTENDS Integers, Sequences, FiniteSets, TLC

\* ---------------------------------------------------------------- bounds
\* Number of start() calls that get past the SerialPort constructor.
MaxStarts == 2
\* Cap of forwardedCounter between two reports.
MaxCount == 2
\* Longest sentence of the frame-validation specification.
MaxLen == 5
\* Longest record of serial writes of the write-order specification.
MaxLog == 3

\* ------------------------------------------------------------- constants
Null == 0
DefaultBaud == 38400

Channels == {"nmea0183", "nmea0183out"}

\* Characters sentences are made of: the two delimiters, a blank, a payload
\* character.
Alphabet == {"$", "*", " ", "A"}

\* What String.prototype.trim removes.
WhiteSpace == {" ", "\t", "\n", "\r"}

\* settings objects handed to start(): serialPort "" is a configuration the
\* SerialPort constructor rejects by throwing; baudRate 0 stands for a
\* falsy (absent or zero) baudRate.
Settings == [serialPort : {"", "/dev/test0"}, baudRate : {0, 4800}]

\* err values of the serial port's 'error' event.
PortErrors == {"EACCES"}

VARIABLES
    reportInterval,    \* let reportInterval: timer handle or Null
    forwardedCounter,  \* let forwardedCounter
    serial,            \* let serial: handle of a SerialPort or Null
    ports,             \* the SerialPort objects constructed so far, by handle
    timers,            \* the host's active interval timers (handles)
    timersCreated,     \* number of setInterval calls so far
    listeners,         \* per bus channel, the number of registered nmeaHandler closures
    pluginStatus,      \* last text given to app.setPluginStatus
    pluginError,       \* last text given to app.setPluginError
    published,         \* texts published by the last callback, in order
    writes,            \* serial.write calls issued by the last callback, in order
    escaped,           \* the last callback let an exception escape to the host
    lastOp,            \* the last callback the host ran
    lifecycle,         \* Stopped / Running / Failed, as start() and stop() returned
    sinceTick,         \* nmeaHandler calls with a framed sentence since the last report
    writtenSinceTick,  \* serial.write calls since the last report
    input,             \* frame validation only: the sentence the bus will emit
    wire,              \* write order only: every serial.write call so far, in order
    delivered          \* write order only: every framed sentence given to a handler, in order

vars == <<reportInterval, forwardedCounter, serial, ports, timers, timersCreated,
          listeners, pluginStatus, pluginError, published, writes, escaped,
          lastOp, lifecycle, sinceTick, writtenSinceTick, input, wire, delivered>>

\* ------------------------------------------------------------ status texts
NoText == [kind |-> "none", n |-> 0, port |-> "", baud |-> 0, msg |-> ""]
\* `Forwarded ${forwardedCounter} NMEA0183 messages.`
ForwardedText(n) == [kind |-> "forwarded", n |-> n, port |-> "", baud |-> 0, msg |-> ""]
\* `Opened serial port ${settings.serialPort} with baudrate ${settings.baudRate}.`
OpenedText(settings) ==
    [kind |-> "opened", n |-> 0, port |-> settings.serialPort,
     baud |-> settings.baudRate, msg |-> ""]
\* `Serial port error: ${err}.`
PortErrorText(err) == [kind |-> "portError", n |-> 0, port |-> "", baud |-> 0, msg |-> err]
\* `Started`
StartedText == [kind |-> "started", n |-> 0, port |-> "", baud |-> 0, msg |-> ""]
\* `Error starting plugin: ${err?.message}`
StartErrorText(message) ==
    [kind |-> "startError", n |-> 0, port |-> "", baud |-> 0, msg |-> message]
\* `${plugin.name} stopped.`
StoppedText == [kind |-> "stopped", n |-> 0, port |-> "", baud |-> 0, msg |-> ""]

ViaStatus(text) == [via |-> "setPluginStatus", text |-> text]
ViaError(text) == [via |-> "setPluginError", text |-> text]

\* ------------------------------------------------------- string functions
RECURSIVE TrimStart(_)
TrimStart(s) ==
    IF Len(s) > 0 /\ s[1] \in WhiteSpace THEN TrimStart(Tail(s)) ELSE s

RECURSIVE TrimEnd(_)
TrimEnd(s) ==
    IF Len(s) > 0 /\ s[Len(s)] \in WhiteSpace
    THEN TrimEnd(SubSeq(s, 1, Len(s) - 1))
    ELSE s

\* `${sentence}`.trim()
Trim(s) == TrimEnd(TrimStart(s))

\* data.startsWith(c)
StartsWith(data, c) == Len(data) >= 1 /\ data[1] = c

\* A plausible slip: a negative index counts from the end, as data.at(i) does.
CharAtFromEnd(data, i) ==
    IF i >= 0 /\ i < Len(data) THEN data[i + 1]
    ELSE IF i < 0 /\ -i <= Len(data) THEN data[Len(data) + i + 1]
    ELSE ""

\* data.charAt(i): the character at the 0-based index i, "" when i is out of range.
CharAt(data, i) == IF i >= 0 /\ i < Len(data) THEN data[i + 1] ELSE ""

\* A plausible slip: only the '*' is tested, the leading '$' is not.
ForwardsWithoutDollar(sentence) ==
    LET data == Trim(sentence)
        len == Len(data)
    IN CharAt(data, len - 3) = "*"

\* The condition of nmeaHandler's if.
Forwards(sentence) ==
    LET data == Trim(sentence)
        len == Len(data)
    IN StartsWith(data, "$") /\ CharAt(data, len - 3) = "*"

\* `${data}\r\n`
Line(data) == data \o <<"\r", "\n">>

\* ------------------------------------------------------------ nmeaHandler
\* A plausible slip: the sentence is written as received, not as trimmed.
nmeaHandlerUntrimmed(st, ser, sentence) ==
    IF Forwards(sentence)
    THEN [counter |-> st.counter + 1,
          writes |-> IF ser # Null
                     THEN Append(st.writes, [to |-> ser, line |-> Line(sentence)])
                     ELSE st.writes]
    ELSE st

\* One invocation of nmeaHandler(sentence) on the module state st =
\* [counter, writes], with ser the current value of serial.
nmeaHandler(st, ser, sentence) ==
    LET data == Trim(sentence)
    IN IF Forwards(sentence)
       THEN [counter |-> st.counter + 1,
             writes |-> IF ser # Null
                        THEN Append(st.writes, [to |-> ser, line |-> Line(data)])
                        ELSE st.writes]
       ELSE st

\* emit(channel, sentence) calls the n listeners of the channel one after
\* the other.
RECURSIVE Emit(_, _, _, _)
Emit(n, st, ser, sentence) ==
    IF n = 0 THEN st ELSE Emit(n - 1, nmeaHandler(st, ser, sentence), ser, sentence)

\* ---------------------------------------------------------------- helpers
\* Record of a callback: its name; for a bus emit whether the sentence is
\* framed, the number of nmeaHandler invocations and how many of them
\* forwarded; for start() whether the SerialPort constructor threw; for
\* stop() whether the callback before it was stop() too.
Op(name) ==
    [op |-> name, framed |-> FALSE, calls |-> 0, forwarded |-> 0, threw |-> FALSE,
     again |-> FALSE]

\* new SerialPort({path, baudRate}) throws on a configuration it rejects.
CtorThrows(settings) == settings.serialPort = ""
CtorMessage(settings) == "\"path\" is not defined"

\* The SerialPort object start() constructs; it opens by itself later.
NewPort(settings) ==
    [state |-> "Opening",
     path |-> settings.serialPort,
     baudRate |-> IF settings.baudRate # 0 THEN settings.baudRate ELSE DefaultBaud,
     settings |-> settings]

\* The module as loaded: lines 32-34.
Loaded ==
    /\ reportInterval = Null
    /\ forwardedCounter = 0
    /\ serial = Null
    /\ ports = <<>>
    /\ timers = {}
    /\ timersCreated = 0
    /\ listeners = [ch \in Channels |-> 0]
    /\ pluginStatus = NoText
    /\ pluginError = NoText
    /\ published = <<>>
    /\ writes = <<>>
    /\ escaped = FALSE
    /\ lastOp = Op("init")
    /\ lifecycle = "Stopped"
    /\ sinceTick = 0
    /\ writtenSinceTick = 0
    /\ wire = <<>>
    /\ delivered = <<>>

Init == Loaded /\ input = <<>>

\* ------------------------------------------------------------------ start
\* A plausible slip: the bus subscriptions and the timer are set up before
\* the try block, so a throwing constructor leaves them behind.
StartSubscribesFirst(settings) ==
    /\ Len(ports) < MaxStarts
    /\ timersCreated < MaxStarts
    /\ listeners' = [ch \in Channels |-> listeners[ch] + 1]
    /\ timersCreated' = timersCreated + 1
    /\ reportInterval' = timersCreated + 1
    /\ timers' = timers \cup {timersCreated + 1}
    /\ IF CtorThrows(settings)
       THEN /\ pluginError' = StartErrorText(CtorMessage(settings))
            /\ published' = <<ViaError(StartErrorText(CtorMessage(settings)))>>
            /\ lastOp' = [Op("start") EXCEPT !.threw = TRUE]
            /\ lifecycle' = "Failed"
            /\ UNCHANGED <<serial, ports, pluginStatus>>
       ELSE /\ ports' = Append(ports, NewPort(settings))
            /\ serial' = Len(ports) + 1
            /\ pluginStatus' = StartedText
            /\ published' = <<ViaStatus(StartedText)>>
            /\ lastOp' = Op("start")
            /\ lifecycle' = "Running"
            /\ UNCHANGED pluginError
    /\ writes' = <<>>
    /\ escaped' = FALSE
    /\ UNCHANGED <<forwardedCounter, sinceTick, writtenSinceTick, input, wire, delivered>>

\* start(settings): everything from the SerialPort constructor on is inside
\* try/catch.  The constructor throws before serial is assigned.
Start(settings) ==
    /\ CtorThrows(settings) \/ Len(ports) < MaxStarts
    /\ IF CtorThrows(settings)
       THEN /\ pluginError' = StartErrorText(CtorMessage(settings))
            /\ published' = <<ViaError(StartErrorText(CtorMessage(settings)))>>
            /\ lastOp' = [Op("start") EXCEPT !.threw = TRUE]
            /\ lifecycle' = "Failed"
            /\ UNCHANGED <<serial, ports, listeners, reportInterval, timers,
                           timersCreated, pluginStatus>>
       ELSE /\ ports' = Append(ports, NewPort(settings))
            /\ serial' = Len(ports) + 1
            /\ listeners' = [ch \in Channels |-> listeners[ch] + 1]
            /\ timersCreated' = timersCreated + 1
            /\ reportInterval' = timersCreated + 1
            /\ timers' = timers \cup {timersCreated + 1}
            /\ pluginStatus' = StartedText
            /\ published' = <<ViaStatus(StartedText)>>
            /\ lastOp' = Op("start")
            /\ lifecycle' = "Running"
            /\ UNCHANGED pluginError
    /\ writes' = <<>>
    /\ escaped' = FALSE
    /\ UNCHANGED <<forwardedCounter, sinceTick, writtenSinceTick, input, wire, delivered>>

\* ------------------------------------------------------------------- stop
\* A plausible slip: stop() also calls serial.close() without a null check,
\* which throws a TypeError when no start() has constructed a port.
StopClosesSerial ==
    /\ timers' = IF reportInterval # Null THEN timers \ {reportInterval} ELSE timers
    /\ IF serial = Null
       THEN /\ escaped' = TRUE
            /\ published' = <<>>
            /\ UNCHANGED <<pluginStatus, ports>>
       ELSE /\ escaped' = FALSE
            /\ ports' = [ports EXCEPT ![serial].state = "Closed"]
            /\ pluginStatus' = StoppedText
            /\ published' = <<ViaStatus(StoppedText)>>
    /\ writes' = <<>>
    /\ lastOp' = [Op("stop") EXCEPT !.again = (lastOp.op = "stop")]
    /\ lifecycle' = "Stopped"
    /\ UNCHANGED <<reportInterval, forwardedCounter, serial, timersCreated,
                   listeners, pluginError, sinceTick, writtenSinceTick, input,
                   wire, delivered>>

\* A plausible slip: stop() also resets forwardedCounter.
StopResetsCounter ==
    /\ timers' = IF reportInterval # Null THEN timers \ {reportInterval} ELSE timers
    /\ forwardedCounter' = 0
    /\ sinceTick' = 0
    /\ writtenSinceTick' = 0
    /\ pluginStatus' = StoppedText
    /\ published' = <<ViaStatus(StoppedText)>>
    /\ writes' = <<>>
    /\ escaped' = FALSE
    /\ lastOp' = [Op("stop") EXCEPT !.again = (lastOp.op = "stop")]
    /\ lifecycle' = "Stopped"
    /\ UNCHANGED <<reportInterval, serial, ports, timersCreated, listeners,
                   pluginError, input, wire, delivered>>

\* A plausible slip: stop() drops the serial handle (serial = null) and
\* leaves the bus listeners registered.
StopReleasesSerial ==
    /\ timers' = IF reportInterval # Null THEN timers \ {reportInterval} ELSE timers
    /\ serial' = Null
    /\ pluginStatus' = StoppedText
    /\ published' = <<ViaStatus(StoppedText)>>
    /\ writes' = <<>>
    /\ escaped' = FALSE
    /\ lastOp' = [Op("stop") EXCEPT !.again = (lastOp.op = "stop")]
    /\ lifecycle' = "Stopped"
    /\ UNCHANGED <<reportInterval, forwardedCounter, ports, timersCreated,
                   listeners, pluginError, sinceTick, writtenSinceTick, input,
                   wire, delivered>>

\* stop(): clearInterval(reportInterval) when it is not null, then the
\* stopped status.  reportInterval keeps its value.
Stop ==
    /\ timers' = IF reportInterval # Null THEN timers \ {reportInterval} ELSE timers
    /\ pluginStatus' = StoppedText
    /\ published' = <<ViaStatus(StoppedText)>>
    /\ writes' = <<>>
    /\ escaped' = FALSE
    /\ lastOp' = [Op("stop") EXCEPT !.again = (lastOp.op = "stop")]
    /\ lifecycle' = "Stopped"
    /\ UNCHANGED <<reportInterval, forwardedCounter, serial, ports, timersCreated,
                   listeners, pluginError, sinceTick, writtenSinceTick, input,
                   wire, delivered>>

\* --------------------------------------------------------------- reporter
\* A plausible slip: reporter() publishes the count and forgets to reset it.
ReporterTickNoReset(t) ==
    /\ t \in timers
    /\ pluginStatus' = ForwardedText(forwardedCounter)
    /\ published' = <<ViaStatus(ForwardedText(forwardedCounter))>>
    /\ writes' = <<>>
    /\ escaped' = FALSE
    /\ lastOp' = Op("tick")
    /\ sinceTick' = 0
    /\ writtenSinceTick' = 0
    /\ UNCHANGED <<forwardedCounter, reportInterval, serial, ports, timers,
                   timersCreated, listeners, pluginError, lifecycle, input, wire,
                   delivered>>

\* A plausible slip: reporter() stays silent when nothing was forwarded.
ReporterTickSkipsZero(t) ==
    /\ t \in timers
    /\ IF forwardedCounter = 0
       THEN /\ published' = <<>>
            /\ UNCHANGED pluginStatus
       ELSE /\ pluginStatus' = ForwardedText(forwardedCounter)
            /\ published' = <<ViaStatus(ForwardedText(forwardedCounter))>>
    /\ forwardedCounter' = 0
    /\ writes' = <<>>
    /\ escaped' = FALSE
    /\ lastOp' = Op("tick")
    /\ sinceTick' = 0
    /\ writtenSinceTick' = 0
    /\ UNCHANGED <<reportInterval, serial, ports, timers, timersCreated, listeners,
                   pluginError, lifecycle, input, wire, delivered>>

\* A tick of an active interval timer runs reporter().
ReporterTick(t) ==
    /\ t \in timers
    /\ pluginStatus' = ForwardedText(forwardedCounter)
    /\ published' = <<ViaStatus(ForwardedText(forwardedCounter))>>
    /\ forwardedCounter' = 0
    /\ writes' = <<>>
    /\ escaped' = FALSE
    /\ lastOp' = Op("tick")
    /\ sinceTick' = 0
    /\ writtenSinceTick' = 0
    /\ UNCHANGED <<reportInterval, serial, ports, timers, timersCreated, listeners,
                   pluginError, lifecycle, input, wire, delivered>>

\* ------------------------------------------------------------ bus traffic
\* The framing rule of the specification, section 4.1: after trimming, at
\* least four characters, the first '$', the third from last '*'.
Framed(sentence) ==
    LET data == Trim(sentence)
        len == Len(data)
    IN len >= 4 /\ data[1] = "$" /\ data[len - 2] = "*"

\* The host emits sentence on channel ch: every registered nmeaHandler runs.
\* The records wire and delivered are kept by the specification that uses
\* the action.
Publish(ch, sentence) ==
    LET n == listeners[ch]
        st == Emit(n, [counter |-> forwardedCounter, writes |-> <<>>], serial, sentence)
    IN /\ forwardedCounter + n <= MaxCount
       /\ forwardedCounter' = st.counter
       /\ writes' = st.writes
       /\ published' = <<>>
       /\ escaped' = FALSE
       /\ lastOp' = [Op("publish") EXCEPT !.framed = Framed(sentence),
                                          !.calls = n,
                                          !.forwarded = st.counter - forwardedCounter]
       /\ sinceTick' = IF Framed(sentence) THEN sinceTick + n ELSE sinceTick
       /\ writtenSinceTick' = writtenSinceTick + Len(st.writes)
       /\ UNCHANGED <<reportInterval, serial, ports, timers, timersCreated,
                      listeners, pluginStatus, pluginError, lifecycle, input>>

\* ------------------------------------------------------ serial port events
\* The port p finishes opening: its 'open' listener publishes the status.
PortOpen(p) ==
    /\ p \in 1..Len(ports)
    /\ ports[p].state = "Opening"
    /\ ports' = [ports EXCEPT ![p].state = "Open"]
    /\ pluginStatus' = OpenedText(ports[p].settings)
    /\ published' = <<ViaStatus(OpenedText(ports[p].settings))>>
    /\ writes' = <<>>
    /\ escaped' = FALSE
    /\ lastOp' = Op("open")
    /\ UNCHANGED <<reportInterval, forwardedCounter, serial, timers, timersCreated,
                   listeners, pluginError, lifecycle, sinceTick, writtenSinceTick,
                   input, wire, delivered>>

\* A plausible slip: the 'error' listener treats the error as fatal and
\* cancels the report timer as stop() does.
PortErrorStops(p, err) ==
    /\ p \in 1..Len(ports)
    /\ ports' = [ports EXCEPT ![p].state = "Errored"]
    /\ timers' = IF reportInterval # Null THEN timers \ {reportInterval} ELSE timers
    /\ pluginStatus' = PortErrorText(err)
    /\ published' = <<ViaStatus(PortErrorText(err))>>
    /\ writes' = <<>>
    /\ escaped' = FALSE
    /\ lastOp' = Op("error")
    /\ UNCHANGED <<reportInterval, forwardedCounter, serial, timersCreated,
                   listeners, pluginError, lifecycle, sinceTick, writtenSinceTick,
                   input, wire, delivered>>

\* The port p reports an error: its 'error' listener publishes the status.
PortError(p, err) ==
    /\ p \in 1..Len(ports)
    /\ ports' = [ports EXCEPT ![p].state = "Errored"]
    /\ pluginStatus' = PortErrorText(err)
    /\ published' = <<ViaStatus(PortErrorText(err))>>
    /\ writes' = <<>>
    /\ escaped' = FALSE
    /\ lastOp' = Op("error")
    /\ UNCHANGED <<reportInterval, forwardedCounter, serial, timers, timersCreated,
                   listeners, pluginError, lifecycle, sinceTick, writtenSinceTick,
                   input, wire, delivered>>

\* Sentences of the bus traffic: framed, framed with surrounding blanks,
\* without '*', too short.
BusSentences ==
    { <<"$", "A", "*", "A", "A">>,
      <<" ", "$", "A", "*", "A", "A", " ">>,
      <<"$", "A", "A", "A", "A">>,
      <<"$", "*">> }

Next ==
    \/ \E settings \in Settings : Start(settings)
    \/ Stop
    \/ \E t \in 1..MaxStarts : ReporterTick(t)
    \/ \E ch \in Channels, sentence \in BusSentences :
          Publish(ch, sentence) /\ UNCHANGED <<wire, delivered>>
    \/ \E p \in 1..MaxStarts : PortOpen(p)
    \/ \E p \in 1..MaxStarts, err \in PortErrors : PortError(p, err)

Spec == Init /\ [][Next]_vars

\* -------------------------------------------------------- frame validation
\* Every sentence of at most MaxLen characters is given to the handler of a
\* started plugin.
FrameSentences == UNION {[1..n -> Alphabet] : n \in 0..MaxLen}

\* The configuration of the end-to-end scenario.
TestSettings == [serialPort |-> "/dev/test0", baudRate |-> 4800]

InitFrames == Loaded /\ input \in FrameSentences

NextFrames ==
    \/ Start(TestSettings)
    \/ \E ch \in Channels : Publish(ch, input) /\ UNCHANGED <<wire, delivered>>

SpecFrames == InitFrames /\ [][NextFrames]_vars

\* -------------------------------------------------------------- write order
\* Bus traffic with two framed sentences of different content, one of them
\* with surrounding blanks, and one sentence without '*'.
OrderSentences ==
    { <<"$", "A", "*", "A", "A">>,
      <<" ", "$", "*", "A", "A", " ">>,
      <<"$", "A", "A", "A", "A">> }

\* An emit, with the serial.write calls it issues appended to wire and, per
\* handler call with a framed sentence, the channel and sentence appended to
\* delivered.
Deliver(ch, sentence) ==
    /\ Len(delivered) + listeners[ch] <= MaxLog
    /\ Publish(ch, sentence)
    /\ wire' = wire \o writes'
    /\ delivered' = delivered \o
           [i \in 1..(IF Framed(sentence) THEN listeners[ch] ELSE 0)
              |-> [ch |-> ch, sentence |-> sentence]]

NextOrder ==
    \/ Start(TestSettings)
    \/ \E t \in 1..MaxStarts : ReporterTick(t)
    \/ \E ch \in Channels, sentence \in OrderSentences : Deliver(ch, sentence)

SpecOrder == Init /\ [][NextOrder]_vars

\* ------------------------------------------------------------------ claims

\* C1: the forwarding callback treats a sentence as forwardable exactly when,
\* after trimming, it has at least four characters, starts with '$' and has
\* '*' as its third character from the end; a trimmed length of 0 to 3 is
\* always rejected.  Every nmeaHandler call of an emit either forwards (the
\* counter goes up by the number of calls) or none does.
C1_FramingDecision ==
    lastOp.op = "publish" =>
        LET data == Trim(input)
            len == Len(data)
        IN /\ lastOp.forwarded =
                 (IF len >= 4 /\ data[1] = "$" /\ data[len - 2] = "*"
                  THEN lastOp.calls ELSE 0)
           /\ (len < 4 => lastOp.forwarded = 0)

\* A framed sentence with surrounding blanks was forwarded by a handler.
C1_Witness ==
    /\ lastOp.op = "publish"
    /\ lastOp.calls > 0
    /\ lastOp.forwarded > 0
    /\ Len(Trim(input)) < Len(input)

\* C2: while the bridge is Running after any sequence of start() and stop()
\* calls, one framed sentence emitted once on one channel causes exactly one
\* serial write, the trimmed sentence followed by CR LF, and raises the
\* counter by exactly 1.
C2_OneWritePerSentence ==
    [][\A ch \in Channels, sentence \in BusSentences :
          (lifecycle = "Running" /\ Framed(sentence) /\ Publish(ch, sentence))
          => /\ writes' = <<[to |-> serial, line |-> Line(Trim(sentence))]>>
             /\ forwardedCounter' = forwardedCounter + 1]_vars

\* C3: the status published by a reporter tick is "Forwarded k", k the
\* number of handler calls with a framed sentence since the previous tick,
\* and the counter is 0 right after the tick.
C3_CounterRoundTrip ==
    [][lastOp'.op = "tick"
       => /\ pluginStatus' = ForwardedText(sinceTick)
          /\ published' = <<ViaStatus(ForwardedText(sinceTick))>>
          /\ forwardedCounter' = 0]_vars

\* A tick of a running bridge reported two forwarded sentences.
C3_Witness ==
    /\ lastOp.op = "tick"
    /\ lifecycle = "Running"
    /\ pluginStatus = ForwardedText(2)
    /\ forwardedCounter = 0

\* C4: while the serial port is not open, a framed sentence given to the
\* forwarding callback raises no exception and issues no write.
C4_NoWriteUnlessOpen ==
    (/\ lastOp.op = "publish"
     /\ lastOp.framed
     /\ lastOp.calls > 0
     /\ serial # Null
     /\ ports[serial].state # "Open")
    => (writes = <<>> /\ ~escaped)

\* C5: stop() raises no error in any lifecycle state and publishes the
\* stopped status; a stop() right after a stop() changes nothing else.
C5_StopIdempotent ==
    [][lastOp'.op = "stop"
       => /\ ~escaped'
          /\ pluginStatus' = StoppedText
          /\ published' = <<ViaStatus(StoppedText)>>
          /\ lastOp.op = "stop"
              => UNCHANGED <<reportInterval, timers, timersCreated, forwardedCounter,
                             serial, ports, listeners, pluginStatus, pluginError,
                             lifecycle>>]_vars

\* stop() ran right after stop() on a plugin that had been started.
C5_Witness ==
    /\ lastOp.op = "stop"
    /\ lastOp.again
    /\ reportInterval # Null
    /\ pluginStatus = StoppedText

\* stop() ran on a plugin that was never started.
C5_WitnessNeverStarted ==
    /\ lastOp.op = "stop"
    /\ reportInterval = Null
    /\ serial = Null

\* C6: when the SerialPort constructor throws, start() lets no exception
\* escape, publishes an error text with the exception's message through
\* setPluginError, does not publish "Started", registers no bus listener and
\* starts no timer.
C6_FailedStart ==
    [][(lastOp'.op = "start" /\ lastOp'.threw)
       => /\ ~escaped'
          /\ \E settings \in Settings :
                /\ CtorThrows(settings)
                /\ pluginError' = StartErrorText(CtorMessage(settings))
                /\ published' = <<ViaError(pluginError')>>
          /\ UNCHANGED <<pluginStatus, listeners, timers, timersCreated,
                         reportInterval, serial, ports>>]_vars

\* A start() whose constructor threw, on a plugin that was running.
C6_Witness ==
    /\ lastOp.op = "start"
    /\ lastOp.threw
    /\ lifecycle = "Failed"
    /\ pluginError.kind = "startError"
    /\ listeners["nmea0183"] > 0

\* C7: once stop() has returned and until the next start(), no reporter
\* timer is active.
C7_NoTimerWhenStopped == lifecycle = "Stopped" => timers = {}

\* C8: in state Stopped or Failed a framed sentence emitted on either
\* channel raises no counter and causes no serial write.
C8_ForwardOnlyWhenRunning ==
    (/\ lastOp.op = "publish"
     /\ lastOp.framed
     /\ lifecycle \in {"Stopped", "Failed"})
    => (lastOp.forwarded = 0 /\ writes = <<>>)

\* C9: at most one serial connection is constructed and not closed.
C9_OneLiveConnection ==
    Cardinality({p \in 1..Len(ports) : ports[p].state # "Closed"}) <= 1

\* C10: from the return of stop() until the next start() the last published
\* status stays the stopped status.
C10_StoppedStatusFinal ==
    lifecycle = "Stopped" => pluginStatus \in {NoText, StoppedText}

\* C11: the serial writes are issued in the order in which the bus invoked
\* the forwarding callback, over both channels together: the i-th write call
\* ever issued carries the i-th framed sentence ever given to a handler,
\* trimmed and followed by CR LF, and a callback that is not an emit issues
\* no write (nothing is kept for a later callback).
C11_WriteOrder ==
    /\ Len(wire) = Len(delivered)
    /\ \A i \in 1..Len(wire) :
          wire[i].line = Trim(delivered[i].sentence) \o <<"\r", "\n">>
    /\ lastOp.op # "publish" => writes = <<>>

\* Two different sentences arrived on different channels and were written in
\* that order.
C11_Witness ==
    /\ Len(wire) >= 2
    /\ \E i \in 1..(Len(wire) - 1) :
          /\ delivered[i].ch # delivered[i + 1].ch
          /\ wire[i].line # wire[i + 1].line

\* C12: a serial port 'error' event only publishes a status text with the
\* error: it lets no exception escape, constructs and closes no port, keeps
\* the serial handle, the timers, the bus listeners, the counter and the
\* Running state; every later handler call with a framed sentence is still
\* counted.
C12_PortErrorNotFatal ==
    [][/\ lastOp'.op = "error"
          => /\ ~escaped'
             /\ \E err \in PortErrors :
                   /\ pluginStatus' = PortErrorText(err)
                   /\ published' = <<ViaStatus(PortErrorText(err))>>
             /\ Len(ports') = Len(ports)
             /\ \A q \in 1..Len(ports) :
                   /\ ports'[q].state \in {ports[q].state, "Errored"}
                   /\ ports'[q].path = ports[q].path
                   /\ ports'[q].baudRate = ports[q].baudRate
             /\ UNCHANGED <<serial, timers, reportInterval, timersCreated, listeners,
                            forwardedCounter, lifecycle, pluginError>>
       /\ (lastOp'.op = "publish" /\ lastOp'.framed)
          => /\ lastOp'.forwarded = lastOp'.calls
             /\ forwardedCounter' = forwardedCounter + lastOp'.calls]_vars

\* A running bridge whose current port has reported an error counted a
\* framed sentence, its report timer still active.
C12_Witness ==
    /\ lastOp.op = "publish"
    /\ lastOp.framed
    /\ lastOp.forwarded > 0
    /\ lifecycle = "Running"
    /\ serial # Null
    /\ ports[serial].state = "Errored"
    /\ reportInterval \in timers

\* C13: a sentence that is not framed is dropped silently: the callbacks it
\* is given to leave the counter, the serial handle and ports, the timers and
\* the published status and error texts unchanged, issue no write, publish
\* nothing and let no exception escape.
C13_UnframedDropped ==
    [][(lastOp'.op = "publish" /\ ~Framed(input))
       => /\ writes' = <<>>
          /\ published' = <<>>
          /\ ~escaped'
          /\ UNCHANGED <<forwardedCounter, serial, ports, timers, timersCreated,
                         reportInterval, listeners, pluginStatus, pluginError,
                         lifecycle>>]_vars

\* A handler of a started plugin was given a sentence that starts with '$'
\* and holds a '*' in the wrong place.
C13_Witness ==
    /\ lastOp.op = "publish"
    /\ lastOp.calls > 0
    /\ ~Framed(input)
    /\ StartsWith(Trim(input), "$")
    /\ \E i \in 1..Len(input) : input[i] = "*"
    /\ timers # {}

\* C14: while the bridge is Running the timer of the last start() is active,
\* and every reporter tick publishes exactly one text, the status
\* "Forwarded n" with n the counter at the tick, whatever the state of the
\* serial port and also when n is 0.
C14_TickAlwaysReports ==
    [][/\ lifecycle' = "Running" => reportInterval' \in timers'
       /\ lastOp'.op = "tick"
          => /\ published' = <<ViaStatus(ForwardedText(forwardedCounter))>>
             /\ pluginStatus' = ForwardedText(forwardedCounter)
             /\ ~escaped']_vars

\* A tick of a running bridge whose port has never opened reported 0.
C14_Witness ==
    /\ lastOp.op = "tick"
    /\ lifecycle = "Running"
    /\ published = <<ViaStatus(ForwardedText(0))>>
    /\ ports[serial].state = "Opening"

\* C15: the status published on the 'open' event of a port names the path
\* and the baud rate the port was constructed with, also when the configured
\* baudRate is absent or 0 and the default is used.
C15_OpenStatusMatches ==
    [][\A p \in 1..MaxStarts :
          PortOpen(p)
          => /\ pluginStatus'.kind = "opened"
             /\ pluginStatus'.port = ports[p].path
             /\ pluginStatus'.baud = ports[p].baudRate]_vars

\* C16: stop() cancels the timer held in reportInterval and publishes the
\* stopped status, and changes nothing else: the serial handle, every port
\* and its state, the counter and the bus listeners are as before the call,
\* and no port is closed.
C16_StopFrame ==
    [][lastOp'.op = "stop"
       => /\ timers' = timers \ {reportInterval}
          /\ pluginStatus' = StoppedText
          /\ writes' = <<>>
          /\ UNCHANGED <<serial, ports, forwardedCounter, listeners, reportInterval,
                         timersCreated, pluginError>>]_vars

\* stop() ran on a running bridge with an open port and a counter above 0,
\* and left them so.
C16_Witness ==
    /\ lastOp.op = "stop"
    /\ ~lastOp.again
    /\ serial # Null
    /\ ports[serial].state = "Open"
    /\ forwardedCounter > 0
    /\ listeners["nmea0183"] > 0
    /\ reportInterval \notin timers

\* C17: whenever a forwarding callback is registered on a bus channel the
\* serial handle is not null; so an emit issues exactly as many write calls
\* as it raises the counter, and the number a reporter tick publishes is the
\* number of write calls issued since the previous tick.
C17_CountEqualsWrites ==
    [][/\ \A ch \in Channels : listeners'[ch] > 0 => serial' # Null
       /\ lastOp'.op = "publish"
          => Len(writes') = forwardedCounter' - forwardedCounter
       /\ lastOp'.op = "tick"
          => /\ pluginStatus'.kind = "forwarded"
             /\ pluginStatus'.n = writtenSinceTick]_vars

\* With two callbacks registered per channel, a tick reported the two write
\* calls of one emitted sentence.
C17_Witness ==
    /\ lastOp.op = "tick"
    /\ listeners["nmea0183"] = 2
    /\ serial # Null
    /\ pluginStatus = ForwardedText(2)

====
